---- MODULE Spec2Model ----
(***************************************************************************)
(* Model of warren's file operation engine (package fileops):              *)
(*   - Operation: status/progress record, cancellation token and the       *)
(*     runner goroutines performCopy .. performRename (operations.go);     *)
(*   - OperationQueue: history list, Running index, admission semaphore    *)
(*     and the per-operation queue task runOperation (queue.go).           *)
(*                                                                         *)
(* Every method that takes op.mu (or q.mu) for its whole body is one       *)
(* atomic step.  A runner goroutine is cut at every access to shared       *)
(* state (a locked method of the Operation, a read of the token, a         *)
(* progress callback); file-system calls between two such accesses are     *)
(* private to the runner and are taken together with the access that       *)
(* follows them.  A file-system call may fail at any time.                 *)
(***************************************************************************)
EXTENDS Integers, Sequences, FiniteSets, TLC

(* ------------------------------ bounds --------------------------------- *)
NumOps == 2
\* largest argument handed to NewQueue
MaxConcArg == 2
\* largest number of file-system entries over all sources of one operation
MaxNodes == 3
\* longest source list handed to a ...Multiple factory
MaxSources == 2
\* last reading of the wall clock
MaxClock == 2
\* number of Operations in the admission-order scenario
NumQueued == 3
\* largest timeout of a Debouncer, in ticks of the clock
MaxTimeout == 2
\* number of Debounce calls
MaxCalls == 3
\* last reading of the runtime clock
MaxTime == 6
\* number of goroutines that take the locks
NumThreads == 3

(* ------------------------- program constants --------------------------- *)
OpCopy == 0
OpMove == 1
OpDelete == 2
OpRename == 3

StatusPending == 0
StatusRunning == 1
StatusCompleted == 2
StatusFailed == 3
StatusCancelled == 4

\* buf := make([]byte, 32*1024)
BufSize == 32 * 1024

Terminal == {StatusCompleted, StatusFailed, StatusCancelled}

Ops == 1..NumOps

(* --------------------------- source trees ------------------------------ *)
(* A source path names a tree of file-system entries, kept as the sequence *)
(* of its entries in the order filepath.Walk and os.ReadDir visit them     *)
(* (pre-order), each with its depth below the root.  size is what Lstat    *)
(* reports: the length of a regular file, the length of a link's target.   *)
FileSizes == {0, BufSize + 1}
LinkSizes == {7}

File(s, d) == [kind |-> "file", size |-> s, depth |-> d]
Symlink(s, d) == [kind |-> "symlink", size |-> s, depth |-> d]
Dir(d) == [kind |-> "dir", size |-> 0, depth |-> d]

Entries ==
  UNION { {File(s, d) : s \in FileSizes} \cup {Symlink(s, d) : s \in LinkSizes} \cup {Dir(d)}
          : d \in 0..(MaxNodes - 1) }

WellFormed(t) ==
  /\ t[1].depth = 0
  /\ \A i \in 2..Len(t) :
       /\ t[i].depth >= 1
       /\ t[i].depth <= (IF t[i-1].kind = "dir" THEN t[i-1].depth + 1 ELSE t[i-1].depth)

Trees == { t \in UNION { [1..k -> Entries] : k \in 1..MaxNodes } : WellFormed(t) }

RECURSIVE SumLen(_)
SumLen(ss) == IF ss = <<>> THEN 0 ELSE Len(Head(ss)) + SumLen(Tail(ss))

\* the trees of at most n entries
TreesUpTo(n) == { t \in Trees : Len(t) <= n }

\* the source lists of at most MaxNodes entries in all: each of k sources
\* has at least one entry, so none has more than MaxNodes - k + 1
SourceLists ==
  { ss \in UNION { [1..k -> TreesUpTo(MaxNodes - k + 1)] : k \in 1..MaxSources } :
      SumLen(ss) <= MaxNodes }

\* the source of the queue scenarios: one empty regular file
QueueTrees == { <<File(0, 0)>> }

(* calculateSize: filepath.Walk over the tree, adding info.Size() of every *)
(* entry that is not a directory (Walk uses Lstat: links are not followed).*)
RECURSIVE calculateSize(_)
calculateSize(t) ==
  IF t = <<>> THEN 0
  ELSE (IF Head(t).kind # "dir" THEN Head(t).size ELSE 0) + calculateSize(Tail(t))

RECURSIVE calculateSizes(_)
calculateSizes(ss) ==
  IF ss = <<>> THEN 0 ELSE calculateSize(Head(ss)) + calculateSizes(Tail(ss))

(* ------------------------------ errors --------------------------------- *)
(* An error is the chain of its messages, outermost first; <<>> is nil.    *)
NoError == <<>>
ErrCancelled == <<"operation cancelled">>
OsError == <<"os error">>
WrapLosesMessage(msg, e) == e
Wrap(msg, e) == <<msg>> \o e

(* --------------------------- Operation --------------------------------- *)
generateOperationID(t) == t

NewOperation(opType, source, destination, t) ==
  [ ID |-> generateOperationID(t),
    Type |-> opType,
    Source |-> source,
    Destination |-> destination,
    Status |-> StatusPending,
    Progress |-> <<0, 1>>,
    BytesProcessed |-> 0,
    BytesTotal |-> 0,
    CurrentFile |-> <<>>,
    Error |-> NoError,
    StartTime |-> 0,
    EndTime |-> 0,
    ctxDone |-> FALSE ]

CancelAnyStatus(p) == [p EXCEPT !.Status = StatusCancelled, !.ctxDone = TRUE]
CancelKeepsToken(p) ==
  IF p.Status = StatusRunning \/ p.Status = StatusPending
  THEN [p EXCEPT !.Status = StatusCancelled]
  ELSE p
Cancel(p) ==
  IF p.Status = StatusRunning \/ p.Status = StatusPending
  THEN [p EXCEPT !.Status = StatusCancelled, !.ctxDone = TRUE]
  ELSE p

IsCancelledNever(p) == FALSE
IsCancelled(p) == p.ctxDone

\* Progress is kept as the fraction <<bytesProcessed, bytesTotal>>
UpdateProgress(p, bytesProcessed, bytesTotal, currentFile) ==
  [p EXCEPT !.BytesProcessed = bytesProcessed,
            !.BytesTotal = bytesTotal,
            !.CurrentFile = currentFile,
            !.Progress = IF bytesTotal > 0 THEN <<bytesProcessed, bytesTotal>> ELSE @]

SetStatus(p, status, t) ==
  [p EXCEPT !.Status = status,
            !.StartTime = IF status = StatusRunning /\ @ = 0 THEN t ELSE @,
            !.EndTime = IF status \in Terminal THEN t ELSE @]

SetErrorKeepsStatus(p, e, t) == [p EXCEPT !.Error = e, !.EndTime = t]
SetError(p, e, t) ==
  [p EXCEPT !.Error = e, !.Status = StatusFailed, !.EndTime = t]

ProgressIsOne(p) == p.Progress[1] = p.Progress[2]


(* ------------------------------- state --------------------------------- *)
VARIABLES
  now,            \* the latest reading of the wall clock
  op,             \* the Operations created so far, by pointer
  run,            \* the runner goroutine of each Operation: its place and locals
  fs,             \* what each runner has done to the file system
  cbLast,         \* the Status the progress callback saw when it last ran
  cancelledPending, \* history: the Operations that Cancel found Pending
  MaxConcurrent,  \* q.MaxConcurrent
  operations,     \* q.operations
  running,        \* q.running, keyed by Operation ID
  sem,            \* number of tokens in q.sem
  task,           \* the goroutine q.runOperation(op) of each added Operation
  cancelOp,       \* a q.Cancel(id) call between its q.Get(id) and its op.Cancel()
  cancelAll,      \* position of a CancelAll call in q.operations (0: none)
  cancelAllOp,    \* the Operation that call has read as active and not yet cancelled
  cancelAllFound, \* history: the Operations that call has found Pending or Running
  clear,          \* a Clear call: its position in q.operations (0: none) and `active`
  debouncer,      \* the Debouncer: its fields timer (0: nil) and timeout
  timers,         \* the timers time.AfterFunc has made, in order
  clock,          \* the runtime clock the timers go by
  mu,             \* the locks: q.mu (at 0) and op.mu of each Operation
  thr             \* the goroutines that take the locks: the calls they are in

opvars == <<op, run, fs, cbLast>>
qvars == <<MaxConcurrent, operations, running, sem, task, cancelOp, cancelAll, cancelAllOp,
           cancelAllFound, clear>>
dvars == <<debouncer, timers, clock>>
lvars == <<mu, thr>>
vars == <<now, op, run, fs, cbLast, cancelledPending, MaxConcurrent, operations, running, sem, task,
          cancelOp, cancelAll, cancelAllOp, cancelAllFound, clear, debouncer, timers, clock,
          mu, thr>>

Created == DOMAIN op

\* the path of entry ni of source si; <<0, 0>> is the destination path
SrcPath(si, ni) == <<si, ni>>
DstPath == <<0, 0>>

Min(a, b) == IF a < b THEN a ELSE b
Max(a, b) == IF a > b THEN a ELSE b

(* ----------------------------- factories ------------------------------- *)
(* Copy, CopyMultiple, Move, MoveMultiple, Delete, DeleteMultiple, Rename: *)
(* NewOperation, then `go performX(op, ...)`.                              *)
NewRunner(fn, callback) ==
  [ fn |-> fn, pc |-> IF fn = "none" THEN "none" ELSE "start", si |-> 1, ni |-> 1, rem |-> 0,
    bytesProcessed |-> 0, totalSize |-> 0, err |-> NoError, callback |-> callback,
    oserr |-> "none" ]

NewFs(source) ==
  [ src |-> [i \in 1..Len(source) |-> "present"],
    dst |-> [i \in 1..Len(source) |-> [j \in 1..Len(source[i]) |-> -1]],
    copied |-> {},
    read |-> [i \in 1..Len(source) |-> "none"],
    lateEntries |-> 0,
    lateBuffers |-> 0 ]

\* NewOperation reads the clock for the ID: the reading t is the previous
\* reading (0: the clock has not been read yet) or a later one
Spawn(o, opType, fn, source, destination, callback) ==
  /\ o \notin Created
  /\ \A o2 \in Ops : o2 < o => o2 \in Created
  /\ \E t \in Max(now, 1)..Min(now + 1, MaxClock) :
       /\ now' = t
       /\ op' = op @@ (o :> NewOperation(opType, source, destination, t))
  /\ run' = run @@ (o :> NewRunner(fn, callback))
  /\ fs' = fs @@ (o :> NewFs(source))
  /\ cbLast' = cbLast @@ (o :> -1)
  /\ UNCHANGED <<cancelledPending, qvars, dvars, lvars>>

Copy(o, source, callback) == Spawn(o, OpCopy, "performCopy", <<source>>, "dst", callback)
CopyMultiple(o, sources, callback) == Spawn(o, OpCopy, "performCopyMultiple", sources, "dst", callback)
Move(o, source, callback) == Spawn(o, OpMove, "performMove", <<source>>, "dst", callback)
MoveMultiple(o, sources, callback) == Spawn(o, OpMove, "performMoveMultiple", sources, "dst", callback)
Delete(o, path, callback) == Spawn(o, OpDelete, "performDelete", <<path>>, "", callback)
DeleteMultiple(o, paths, callback) == Spawn(o, OpDelete, "performDeleteMultiple", paths, "", callback)
Rename(o, oldPath, callback) == Spawn(o, OpRename, "performRename", <<oldPath>>, "dst", callback)

\* NewOperation alone, as the queue's tests call it: no runner is started
Bare(o, opType, source) == Spawn(o, opType, "none", <<source>>, "dst", FALSE)

(* ------------------------ steps shared by runners ---------------------- *)
SetOp(o, p) == op' = [op EXCEPT ![o] = p]
SetRun(o, r) == run' = [run EXCEPT ![o] = r]
Goto(r, pc) == [r EXCEPT !.pc = pc]

\* `if callback != nil { callback(op) }` before continuing at pc
ViaCallback(r, cbpc, pc) == Goto(r, IF r.callback THEN cbpc ELSE pc)

\* the last statement of every runner
FinalCallback(r) == ViaCallback(r, "final_cb", "done")

\* callback(op): the callback looks at the Operation
Callback(o, cbpc, pc) ==
  /\ run[o].pc = cbpc
  /\ cbLast' = [cbLast EXCEPT ![o] = op[o].Status]
  /\ SetRun(o, Goto(run[o], pc))
  /\ UNCHANGED <<op, fs>>

\* op.SetStatus(StatusRunning), the first statement of every runner
Start(o, pc) ==
  /\ run[o].pc = "start"
  /\ SetOp(o, SetStatus(op[o], StatusRunning, now))
  /\ SetRun(o, Goto(run[o], pc))
  /\ UNCHANGED <<fs, cbLast>>

\* op.SetError(err), then the final callback
Fail(o, pc) ==
  /\ run[o].pc = pc
  /\ SetOp(o, SetError(op[o], run[o].err, now))
  /\ SetRun(o, FinalCallback(run[o]))
  /\ UNCHANGED <<fs, cbLast>>

\* op.SetStatus(StatusCompleted), then the final callback
Complete(o, pc) ==
  /\ run[o].pc = pc
  /\ SetOp(o, SetStatus(op[o], StatusCompleted, now))
  /\ SetRun(o, FinalCallback(run[o]))
  /\ UNCHANGED <<fs, cbLast>>

(* run[o].oserr records what the runner has met so far: "none", no error  *)
(* of a file-system call; "fallback", only failures of os.Rename that send *)
(* a Move to its copy-then-delete fallback; "close", also a failure of a   *)
(* deferred Close in copyFile; "failed", an error the runner returns on.   *)
OsFailed(r) == [r EXCEPT !.oserr = "failed"]
FellBack(r) == [r EXCEPT !.oserr = IF @ = "none" THEN "fallback" ELSE @]
CloseFailed(r) == [r EXCEPT !.oserr = IF @ \in {"none", "fallback"} THEN "close" ELSE @]

(* ------------------- copyRecursive / copyDir / copyFile ---------------- *)
\* copyRecursive returns e to the runner
Return(r, e) ==
  [r EXCEPT !.pc = "cr_ret", !.err = e,
            !.oserr = IF e \in {NoError, ErrCancelled} THEN @ ELSE "failed"]

\* The entry at ni is done.  The enclosing copyDir loops go on with the
\* next entry of the tree; after the last one copyRecursive returns nil.
AfterEntry(r, t) ==
  IF r.ni < Len(t) THEN [r EXCEPT !.ni = r.ni + 1, !.pc = "cd_check"]
  ELSE Return(r, NoError)

\* the destination entry now holds n bytes; after the last entry, the copy
\* of this source has succeeded
Written(f, r, n) == [f EXCEPT !.dst[r.si][r.ni] = n]

\* os.Symlink, os.MkdirAll, os.Create: the destination entry is started;
\* dstFile.Write: n more bytes.  lateEntries and lateBuffers count the
\* entries started and the buffers written with the token already triggered.
Started(f, p, r) ==
  [Written(f, r, 0) EXCEPT !.lateEntries = IF p.ctxDone THEN @ + 1 ELSE @]
Wrote(f, p, r, n) ==
  [Written(f, r, f.dst[r.si][r.ni] + n) EXCEPT !.lateBuffers = IF p.ctxDone THEN @ + 1 ELSE @]
Finished(f, r, t) == [f EXCEPT !.copied = IF r.ni = Len(t) THEN @ \cup {r.si} ELSE @]

\* What has read each source: nothing yet ("none"), the filepath.Walk of
\* calculateSize alone ("walk": Lstat of every entry, the directories
\* listed), or the copy as well ("copy": copyRecursive's os.Lstat, then
\* Readlink, ReadDir or Open and Read).
Walked(f, js) ==
  [f EXCEPT !.read = [i \in DOMAIN f.read |->
                        IF i \in js /\ f.read[i] = "none" THEN "walk" ELSE f.read[i]]]
Lstat(f, r) == [f EXCEPT !.read[r.si] = "copy"]

copyRecursive(o) ==
  LET p == op[o]
      r == run[o]
      t == p.Source[r.si]
      e == t[r.ni]
  IN
  \/ /\ r.pc = "cr_check"
     /\ SetRun(o, IF IsCancelled(p) THEN Return(r, ErrCancelled) ELSE Goto(r, "cr_entry"))
     /\ UNCHANGED <<op, fs, cbLast>>
  \/ /\ r.pc = "cr_entry"
     /\ \/ /\ SetRun(o, Return(r, Wrap("failed to stat source", OsError)))
           /\ fs' = [fs EXCEPT ![o] = Lstat(@, r)]
        \/ /\ e.kind = "symlink"
           /\ \/ /\ \E x \in {Wrap("failed to read symlink", OsError), OsError} :
                      SetRun(o, Return(r, x))
                 /\ fs' = [fs EXCEPT ![o] = Lstat(@, r)]
              \/ /\ SetRun(o, AfterEntry(r, t))
                 /\ fs' = [fs EXCEPT ![o] = Finished(Started(Lstat(@, r), p, r), r, t)]
        \/ /\ e.kind = "dir"
           /\ SetRun(o, Goto(r, "cd_entry"))
           /\ fs' = [fs EXCEPT ![o] = Lstat(@, r)]
        \/ /\ e.kind = "file"
           /\ SetRun(o, Goto(r, "cf_entry"))
           /\ fs' = [fs EXCEPT ![o] = Lstat(@, r)]
     /\ UNCHANGED <<op, cbLast>>

copyDir(o) ==
  LET p == op[o]
      r == run[o]
      t == p.Source[r.si]
  IN
  \/ /\ r.pc = "cd_entry"
     /\ \/ /\ \E x \in {"failed to stat source directory", "failed to create directory"} :
                SetRun(o, Return(r, Wrap(x, OsError)))
           /\ UNCHANGED fs
        \/ /\ SetRun(o, Return(r, Wrap("failed to read directory", OsError)))
           /\ fs' = [fs EXCEPT ![o] = Started(@, p, r)]
        \/ /\ SetRun(o, AfterEntry(r, t))
           /\ fs' = [fs EXCEPT ![o] = Finished(Started(@, p, r), r, t)]
     /\ UNCHANGED <<op, cbLast>>
  \/ /\ r.pc = "cd_check"
     /\ SetRun(o, IF IsCancelled(p) THEN Return(r, ErrCancelled) ELSE Goto(r, "cr_check"))
     /\ UNCHANGED <<op, fs, cbLast>>

copyFile(o) ==
  LET p == op[o]
      r == run[o]
      t == p.Source[r.si]
      e == t[r.ni]
      n == Min(r.rem, BufSize)
  IN
  \/ /\ r.pc = "cf_entry"
     /\ \/ /\ \E x \in {"failed to open source file", "failed to stat source file",
                        "failed to create destination file"} :
                SetRun(o, Return(r, Wrap(x, OsError)))
           /\ UNCHANGED fs
        \/ /\ SetRun(o, Return(r, Wrap("failed to set permissions", OsError)))
           /\ fs' = [fs EXCEPT ![o] = Started(@, p, r)]
        \/ /\ SetRun(o, [r EXCEPT !.pc = "cf_check", !.rem = e.size])
           /\ fs' = [fs EXCEPT ![o] = Started(@, p, r)]
     /\ UNCHANGED <<op, cbLast>>
  \/ /\ r.pc = "cf_check"
     /\ SetRun(o, IF IsCancelled(p) THEN Return(r, ErrCancelled) ELSE Goto(r, "cf_io"))
     /\ UNCHANGED <<op, fs, cbLast>>
  \/ /\ r.pc = "cf_io"
     /\ \/ /\ SetRun(o, Return(r, Wrap("failed to read from source", OsError)))
           /\ UNCHANGED <<op, fs>>
        \/ /\ n > 0
           /\ SetRun(o, Return(r, Wrap("failed to write to destination", OsError)))
           /\ UNCHANGED <<op, fs>>
        \/ /\ n > 0
           /\ SetOp(o, UpdateProgress(p, r.bytesProcessed + n, r.totalSize, SrcPath(r.si, r.ni)))
           /\ SetRun(o, ViaCallback([r EXCEPT !.rem = r.rem - n,
                                              !.bytesProcessed = r.bytesProcessed + n],
                                    "cf_cb", "cf_check"))
           /\ fs' = [fs EXCEPT ![o] = Wrote(@, p, r, n)]
        \/ /\ n = 0                  \* io.EOF; the deferred Close calls run
           /\ \E closeErr \in BOOLEAN :
                SetRun(o, AfterEntry(IF closeErr THEN CloseFailed(r) ELSE r, t))
           /\ fs' = [fs EXCEPT ![o] = Finished(@, r, t)]
           /\ UNCHANGED op
     /\ UNCHANGED cbLast
  \/ Callback(o, "cf_cb", "cf_check")

copyTree(o) == copyRecursive(o) \/ copyDir(o) \/ copyFile(o)

\* the runner enters copyRecursive for source si with a fresh or running count
EnterCopy(r, si, bytesProcessed, totalSize) ==
  [r EXCEPT !.pc = "cr_check", !.si = si, !.ni = 1,
            !.bytesProcessed = bytesProcessed, !.totalSize = totalSize]


(* ------------------------------ runners -------------------------------- *)
Runs(o, fn) == o \in Created /\ run[o].fn = fn

\* source si has been renamed to its destination: the whole tree is there
Renamed(f, si, t) ==
  [f EXCEPT !.src[si] = "moved", !.dst[si] = [j \in 1..Len(t) |-> t[j].size]]

\* os.RemoveAll(source si) succeeded
Removed(f, si) == [f EXCEPT !.src[si] = "removed"]

\* os.RemoveAll(source si) failed, possibly after removing part of the tree
RemoveFailed(f, si, partial) ==
  [f EXCEPT !.src[si] = IF partial THEN "partial" ELSE @]

\* the loop over the sources goes on, or ends
NextSource(r, p, looppc, endpc) ==
  IF r.si < Len(p.Source) THEN [r EXCEPT !.si = r.si + 1, !.pc = looppc]
  ELSE Goto(r, endpc)

\* `if op.IsCancelled() { break }` at the head of a loop over the sources
LoopCheck(o, looppc, bodypc, endpc) ==
  /\ run[o].pc = looppc
  /\ SetRun(o, Goto(run[o], IF IsCancelled(op[o]) THEN endpc ELSE bodypc))
  /\ UNCHANGED <<op, fs, cbLast>>

\* `if !op.IsCancelled() { op.SetStatus(StatusCompleted) }` after the loop
EndCheck(o, endpc) ==
  /\ run[o].pc = endpc
  /\ SetRun(o, IF IsCancelled(op[o]) THEN FinalCallback(run[o]) ELSE Goto(run[o], "setc"))
  /\ UNCHANGED <<op, fs, cbLast>>

\* `if err != nil` after a call of copyRecursive
copyFailedNever(err) == FALSE
copyFailed(err) == err # NoError

performCopy(o) ==
  /\ Runs(o, "performCopy")
  /\ LET p == op[o]
         r == run[o]
         totalSize == calculateSize(p.Source[1])
     IN
     \/ Start(o, "calc")
     \/ /\ r.pc = "calc"
        /\ \/ /\ SetOp(o, SetError(p, Wrap("failed to calculate size", OsError), now))
              /\ SetRun(o, FinalCallback(OsFailed(r)))
           \/ /\ SetOp(o, UpdateProgress(p, 0, totalSize, SrcPath(1, 1)))
              /\ SetRun(o, ViaCallback(EnterCopy(r, 1, 0, totalSize), "cb1", "cr_check"))
        /\ fs' = [fs EXCEPT ![o] = Walked(@, {1})]
        /\ UNCHANGED cbLast
     \/ Callback(o, "cb1", "cr_check")
     \/ copyTree(o)
     \/ /\ r.pc = "cr_ret"
        /\ r.err # NoError
        /\ SetRun(o, IF IsCancelled(p) THEN FinalCallback(r) ELSE Goto(r, "seterr"))
        /\ UNCHANGED <<op, fs, cbLast>>
     \/ Fail(o, "seterr")
     \/ (r.err = NoError /\ Complete(o, "cr_ret"))
     \/ Callback(o, "final_cb", "done")
  /\ UNCHANGED <<now, cancelledPending, qvars, dvars, lvars>>

performCopyMultiple(o) ==
  /\ Runs(o, "performCopyMultiple")
  /\ LET p == op[o]
         r == run[o]
     IN
     \/ Start(o, "calc")
     \/ /\ r.pc = "calc"
        /\ \/ /\ SetOp(o, SetError(p, Wrap("failed to calculate size for", OsError), now))
              /\ SetRun(o, FinalCallback(OsFailed(r)))
              /\ \E k \in 1..Len(p.Source) : fs' = [fs EXCEPT ![o] = Walked(@, 1..k)]
           \/ /\ SetRun(o, [r EXCEPT !.pc = "cm_loop", !.si = 1, !.bytesProcessed = 0,
                                     !.totalSize = calculateSizes(p.Source)])
              /\ fs' = [fs EXCEPT ![o] = Walked(@, 1..Len(p.Source))]
              /\ UNCHANGED op
        /\ UNCHANGED cbLast
     \/ /\ r.pc = "cm_loop"
        /\ SetRun(o, IF IsCancelled(p) THEN Goto(r, "cm_end")
                     ELSE EnterCopy(r, r.si, r.bytesProcessed, r.totalSize))
        /\ UNCHANGED <<op, fs, cbLast>>
     \/ copyTree(o)
     \/ /\ r.pc = "cr_ret"
        /\ SetRun(o, IF copyFailed(r.err)
                     THEN (IF IsCancelled(p) THEN FinalCallback(r)
                           ELSE [r EXCEPT !.pc = "seterr", !.err = Wrap("failed to copy", r.err)])
                     ELSE NextSource(r, p, "cm_loop", "cm_end"))
        /\ UNCHANGED <<op, fs, cbLast>>
     \/ Fail(o, "seterr")
     \/ EndCheck(o, "cm_end")
     \/ Complete(o, "setc")
     \/ Callback(o, "final_cb", "done")
  /\ UNCHANGED <<now, cancelledPending, qvars, dvars, lvars>>

performMove(o) ==
  /\ Runs(o, "performMove")
  /\ LET p == op[o]
         r == run[o]
     IN
     \/ Start(o, "mv_rename")
     \/ /\ r.pc = "mv_rename"
        /\ \/ /\ fs' = [fs EXCEPT ![o] = Renamed(@, 1, p.Source[1])]
              /\ SetOp(o, UpdateProgress(p, 1, 1, SrcPath(1, 1)))
              /\ SetRun(o, Goto(r, "setc"))
           \/ /\ SetRun(o, Goto(FellBack(r), "mv_calc"))
              /\ UNCHANGED <<op, fs>>
        /\ UNCHANGED cbLast
     \/ /\ r.pc = "mv_calc"
        /\ \/ /\ SetOp(o, SetError(p, Wrap("failed to calculate size", OsError), now))
              /\ SetRun(o, FinalCallback(OsFailed(r)))
           \/ /\ SetRun(o, EnterCopy(r, 1, 0, calculateSize(p.Source[1])))
              /\ UNCHANGED op
        /\ fs' = [fs EXCEPT ![o] = Walked(@, {1})]
        /\ UNCHANGED cbLast
     \/ copyTree(o)
     \/ /\ r.pc = "cr_ret"
        /\ \/ /\ copyFailed(r.err)
              /\ SetOp(o, SetError(p, Wrap("failed to copy", r.err), now))
              /\ SetRun(o, FinalCallback(r))
           \/ /\ ~copyFailed(r.err)
              /\ SetRun(o, Goto(r, "mv_remove"))
              /\ UNCHANGED op
        /\ UNCHANGED <<fs, cbLast>>
     \/ /\ r.pc = "mv_remove"
        /\ \/ \E partial \in BOOLEAN :
                /\ fs' = [fs EXCEPT ![o] = RemoveFailed(@, 1, partial)]
                /\ SetOp(o, SetError(p, Wrap("failed to remove source after copy", OsError), now))
                /\ SetRun(o, FinalCallback(OsFailed(r)))
           \/ /\ fs' = [fs EXCEPT ![o] = Removed(@, 1)]
              /\ SetOp(o, SetStatus(p, StatusCompleted, now))
              /\ SetRun(o, FinalCallback(r))
        /\ UNCHANGED cbLast
     \/ Complete(o, "setc")
     \/ Callback(o, "final_cb", "done")
  /\ UNCHANGED <<now, cancelledPending, qvars, dvars, lvars>>

performMoveMultiple(o) ==
  /\ Runs(o, "performMoveMultiple")
  /\ LET p == op[o]
         r == run[o]
     IN
     \/ Start(o, "mm_loop")
     \/ LoopCheck(o, "mm_loop", "mm_rename", "mm_end")
     \/ /\ r.pc = "mm_rename"
        /\ \/ /\ fs' = [fs EXCEPT ![o] = Renamed(@, r.si, p.Source[r.si])]
              /\ SetRun(o, NextSource(r, p, "mm_loop", "mm_end"))
           \/ /\ SetRun(o, Goto(FellBack(r), "mm_calc"))
              /\ UNCHANGED fs
        /\ UNCHANGED <<op, cbLast>>
     \/ /\ r.pc = "mm_calc"
        /\ \/ /\ SetOp(o, SetError(p, Wrap("failed to calculate size for", OsError), now))
              /\ SetRun(o, FinalCallback(OsFailed(r)))
           \/ /\ SetRun(o, EnterCopy(r, r.si, 0, calculateSize(p.Source[r.si])))
              /\ UNCHANGED op
        /\ fs' = [fs EXCEPT ![o] = Walked(@, {r.si})]
        /\ UNCHANGED cbLast
     \/ copyTree(o)
     \/ /\ r.pc = "cr_ret"
        /\ \/ /\ copyFailed(r.err)
              /\ SetOp(o, SetError(p, Wrap("failed to move", r.err), now))
              /\ SetRun(o, FinalCallback(r))
           \/ /\ ~copyFailed(r.err)
              /\ SetRun(o, Goto(r, "mm_remove"))
              /\ UNCHANGED op
        /\ UNCHANGED <<fs, cbLast>>
     \/ /\ r.pc = "mm_remove"
        /\ \/ \E partial \in BOOLEAN :
                /\ fs' = [fs EXCEPT ![o] = RemoveFailed(@, r.si, partial)]
                /\ SetOp(o, SetError(p, Wrap("failed to remove source", OsError), now))
                /\ SetRun(o, FinalCallback(OsFailed(r)))
           \/ /\ fs' = [fs EXCEPT ![o] = Removed(@, r.si)]
              /\ SetRun(o, NextSource(r, p, "mm_loop", "mm_end"))
              /\ UNCHANGED op
        /\ UNCHANGED cbLast
     \/ EndCheck(o, "mm_end")
     \/ Complete(o, "setc")
     \/ Callback(o, "final_cb", "done")
  /\ UNCHANGED <<now, cancelledPending, qvars, dvars, lvars>>

performDelete(o) ==
  /\ Runs(o, "performDelete")
  /\ LET p == op[o]
         r == run[o]
         totalSize == calculateSize(p.Source[1])
     IN
     \/ Start(o, "calc")
     \/ /\ r.pc = "calc"
        /\ \/ /\ SetOp(o, SetError(p, Wrap("failed to calculate size", OsError), now))
              /\ SetRun(o, FinalCallback(OsFailed(r)))
           \/ /\ SetOp(o, UpdateProgress(p, 0, totalSize, SrcPath(1, 1)))
              /\ SetRun(o, ViaCallback([r EXCEPT !.totalSize = totalSize], "cb1", "del_remove"))
        /\ fs' = [fs EXCEPT ![o] = Walked(@, {1})]
        /\ UNCHANGED cbLast
     \/ Callback(o, "cb1", "del_remove")
     \/ /\ r.pc = "del_remove"
        /\ \/ \E partial \in BOOLEAN :
                /\ fs' = [fs EXCEPT ![o] = RemoveFailed(@, 1, partial)]
                /\ SetOp(o, SetError(p, Wrap("failed to delete", OsError), now))
                /\ SetRun(o, FinalCallback(OsFailed(r)))
           \/ /\ fs' = [fs EXCEPT ![o] = Removed(@, 1)]
              /\ SetOp(o, UpdateProgress(p, r.totalSize, r.totalSize, SrcPath(1, 1)))
              /\ SetRun(o, Goto(r, "setc"))
        /\ UNCHANGED cbLast
     \/ Complete(o, "setc")
     \/ Callback(o, "final_cb", "done")
  /\ UNCHANGED <<now, cancelledPending, qvars, dvars, lvars>>

performDeleteMultiple(o) ==
  /\ Runs(o, "performDeleteMultiple")
  /\ LET p == op[o]
         r == run[o]
     IN
     \/ Start(o, "dm_loop")
     \/ LoopCheck(o, "dm_loop", "dm_remove", "dm_end")
     \/ /\ r.pc = "dm_remove"
        /\ \/ \E partial \in BOOLEAN :
                /\ fs' = [fs EXCEPT ![o] = RemoveFailed(@, r.si, partial)]
                /\ SetOp(o, SetError(p, Wrap("failed to delete", OsError), now))
                /\ SetRun(o, FinalCallback(OsFailed(r)))
           \/ /\ fs' = [fs EXCEPT ![o] = Removed(@, r.si)]
              /\ SetRun(o, NextSource(r, p, "dm_loop", "dm_end"))
              /\ UNCHANGED op
        /\ UNCHANGED cbLast
     \/ EndCheck(o, "dm_end")
     \/ Complete(o, "setc")
     \/ Callback(o, "final_cb", "done")
  /\ UNCHANGED <<now, cancelledPending, qvars, dvars, lvars>>

performRename(o) ==
  /\ Runs(o, "performRename")
  /\ LET p == op[o]
         r == run[o]
     IN
     \/ Start(o, "rn_rename")
     \/ /\ r.pc = "rn_rename"
        /\ \/ /\ SetOp(o, SetError(p, Wrap("failed to rename", OsError), now))
              /\ SetRun(o, FinalCallback(OsFailed(r)))
              /\ UNCHANGED fs
           \/ /\ fs' = [fs EXCEPT ![o] = Renamed(@, 1, p.Source[1])]
              /\ SetOp(o, UpdateProgress(p, 1, 1, DstPath))
              /\ SetRun(o, Goto(r, "setc"))
        /\ UNCHANGED cbLast
     \/ Complete(o, "setc")
     \/ Callback(o, "final_cb", "done")
  /\ UNCHANGED <<now, cancelledPending, qvars, dvars, lvars>>

Runner(o) ==
  \/ performCopy(o)
  \/ performCopyMultiple(o)
  \/ performMove(o)
  \/ performMoveMultiple(o)
  \/ performDelete(o)
  \/ performDeleteMultiple(o)
  \/ performRename(o)

(* ------------------------------ callers -------------------------------- *)
\* op.Cancel(), called by whoever holds the Operation
CancelOp(o) ==
  /\ SetOp(o, Cancel(op[o]))
  /\ cancelledPending' = IF op[o].Status = StatusPending THEN cancelledPending \cup {o}
                         ELSE cancelledPending

OpCancel(o) ==
  /\ o \in Created
  /\ CancelOp(o)
  /\ UNCHANGED <<now, run, fs, cbLast, qvars, dvars, lvars>>

(* ------------------------------- queue --------------------------------- *)
(* q.mu is held by CancelAll and by Clear from their first to their last   *)
(* look at an Operation (cancelAll > 0, clear.i > 0); every other queue    *)
(* method holds it for one step, which can be taken only while neither is  *)
(* under way.  CancelAll, Clear and runOperation read op.Status without    *)
(* op.mu: the read takes the value Status has at that moment.              *)
NewQueue(maxConcurrent) == IF maxConcurrent < 1 THEN 1 ELSE maxConcurrent

Added == DOMAIN task

\* no Clear call is under way
NoClear == [i |-> 0, active |-> <<>>]

QueueUnlocked == cancelAll = 0 /\ clear = NoClear

\* no q.Cancel(id) call is between its Get and its op.Cancel(); else the
\* Operation Get returned and, as history, the Status it had then
NoCancel == [op |-> 0, status |-> StatusPending]

RunningCount == Cardinality(DOMAIN running)

\* q.Get(id): the first Operation of the history with that ID, 0 for nil
GetFirst(id) == IF operations # <<>> THEN operations[1] ELSE 0
Get(id) ==
  IF \E i \in 1..Len(operations) : op[operations[i]].ID = id
  THEN operations[CHOOSE i \in 1..Len(operations) :
                    /\ op[operations[i]].ID = id
                    /\ \A j \in 1..(i - 1) : op[operations[j]].ID # id]
  ELSE 0

\* what q.Cancel(id) returns: `op != nil`
QueueCancelReturns(id) == Get(id) # 0

\* a send on q.sem (capacity MaxConcurrent) does not block
SlotFreeAlways == TRUE
SlotFree == sem < MaxConcurrent

\* q.Add(op): append to the history, then `go q.runOperation(op)`
Add(o) ==
  /\ o \in Created
  /\ o \notin Added
  /\ QueueUnlocked
  /\ operations' = Append(operations, o)
  /\ task' = task @@ (o :> [pc |-> "acquire"])
  /\ UNCHANGED <<now, opvars, cancelledPending, MaxConcurrent, running, sem,
                  cancelOp, cancelAll, cancelAllOp, cancelAllFound, clear, dvars, lvars>>

\* `status == StatusCompleted || status == StatusFailed ||
\*  status == StatusCancelled`: the wait loop is over
waitOverNever(status) == FALSE
waitOver(status) == status \in Terminal

\* the goroutine q.runOperation(op)
runOperation(o) ==
  /\ o \in Added
  /\ LET k == task[o] IN
     \/ /\ k.pc = "acquire"                         \* q.sem <- struct{}{}
        /\ SlotFree
        /\ sem' = sem + 1
        /\ task' = [task EXCEPT ![o].pc = "insert"]
        /\ UNCHANGED running
     \/ /\ k.pc = "insert"                          \* q.running[op.ID] = op
        /\ QueueUnlocked
        /\ running' = [i \in DOMAIN running \cup {op[o].ID} |->
                         IF i = op[o].ID THEN o ELSE running[i]]
        /\ task' = [task EXCEPT ![o].pc = "poll"]
        /\ UNCHANGED sem
     \/ /\ k.pc = "poll"                            \* status := op.Status
        /\ task' = [task EXCEPT ![o].pc =
                      IF waitOver(op[o].Status) THEN "delete" ELSE "select"]
        /\ UNCHANGED <<running, sem>>
     \/ /\ k.pc = "select"                          \* case <-op.ctx.Done()
        /\ task' = [task EXCEPT ![o].pc = IF op[o].ctxDone THEN "delete" ELSE "poll"]
        /\ UNCHANGED <<running, sem>>
     \/ /\ k.pc = "delete"                          \* delete(q.running, op.ID)
        /\ QueueUnlocked
        /\ running' = [i \in DOMAIN running \ {op[o].ID} |-> running[i]]
        /\ task' = [task EXCEPT ![o].pc = "release"]
        /\ UNCHANGED sem
     \/ /\ k.pc = "release"                         \* defer func() { <-q.sem }()
        /\ sem' = sem - 1
        /\ task' = [task EXCEPT ![o].pc = "done"]
        /\ UNCHANGED running
  /\ UNCHANGED <<now, opvars, cancelledPending, MaxConcurrent, operations,
                  cancelOp, cancelAll, cancelAllOp, cancelAllFound, clear, dvars, lvars>>

\* q.Cancel(id) is two critical sections with no lock held in between:
\* `op := q.Get(id)` under q.mu.RLock, and, if op != nil, `op.Cancel()`
\* under op.mu. Between the two the runner, CancelAll and Clear can act.

\* `op := q.Get(id)`; with op == nil the call returns false here
QueueCancelGet(id) ==
  /\ QueueUnlocked
  /\ cancelOp = NoCancel
  /\ LET found == Get(id) IN
       cancelOp' = IF found = 0
                   THEN NoCancel
                   ELSE [op |-> found, status |-> op[found].Status]
  /\ UNCHANGED <<now, opvars, cancelledPending, MaxConcurrent, operations, running, sem, task,
                  cancelAll, cancelAllOp, cancelAllFound, clear, dvars, lvars>>

\* `op.Cancel(); return true`, on the Operation Get has returned, be
\* it still in q.operations or not; q.mu is not needed
QueueCancelOp ==
  /\ cancelOp # NoCancel
  /\ CancelOp(cancelOp.op)
  /\ cancelOp' = NoCancel
  /\ UNCHANGED <<now, run, fs, cbLast, MaxConcurrent, operations, running, sem, task,
                  cancelAll, cancelAllOp, cancelAllFound, clear, dvars, lvars>>

\* `op.Status == StatusPending || op.Status == StatusRunning`
ActiveAlways(o) == TRUE
Active(o) == op[o].Status = StatusPending \/ op[o].Status = StatusRunning

\* q.CancelAll() takes q.mu with its first look and returns after its
\* last. Each round of its loop is two steps: the test of op.Status, read
\* without op.mu, and, if it passed, op.Cancel(), which waits for op.mu
\* and tests Status again; a runner needs only op.mu and can act between.

\* the test of the next Operation of the history
CancelAllLook ==
  LET i == IF cancelAll = 0 THEN 1 ELSE cancelAll IN
  /\ cancelAllOp = 0
  /\ cancelAll > 0 \/ QueueUnlocked
  /\ IF i <= Len(operations) /\ Active(operations[i])
     THEN /\ cancelAll' = i
          /\ cancelAllOp' = operations[i]
          /\ cancelAllFound' = cancelAllFound \cup {operations[i]}
     ELSE /\ cancelAllOp' = 0
          /\ IF i >= Len(operations)
             THEN cancelAll' = 0 /\ cancelAllFound' = {}
             ELSE cancelAll' = i + 1 /\ UNCHANGED cancelAllFound
  /\ UNCHANGED <<now, opvars, cancelledPending, MaxConcurrent, operations, running, sem, task,
                  cancelOp, clear, dvars, lvars>>

\* op.Cancel() on the Operation whose test passed
CancelAllCancel ==
  /\ cancelAllOp # 0
  /\ CancelOp(cancelAllOp)
  /\ cancelAllOp' = 0
  /\ IF cancelAll >= Len(operations)
     THEN cancelAll' = 0 /\ cancelAllFound' = {}
     ELSE cancelAll' = cancelAll + 1 /\ UNCHANGED cancelAllFound
  /\ UNCHANGED <<now, run, fs, cbLast, MaxConcurrent, operations, running, sem, task,
                  cancelOp, clear, dvars, lvars>>

\* q.CancelAll(): a step of the call
CancelAll == CancelAllLook \/ CancelAllCancel

\* q.Clear(): one look at the next Operation of the history, appended to
\* `active` if it is Pending or Running; after the last look
\* q.operations = active and the call returns
Clear ==
  LET i == IF clear.i = 0 THEN 1 ELSE clear.i
      active == IF i <= Len(operations) /\ Active(operations[i])
                THEN Append(clear.active, operations[i])
                ELSE clear.active
  IN
  /\ clear.i > 0 \/ QueueUnlocked
  /\ IF i >= Len(operations)
     THEN operations' = active /\ clear' = NoClear
     ELSE clear' = [i |-> i + 1, active |-> active] /\ UNCHANGED operations
  /\ UNCHANGED <<now, opvars, cancelledPending, MaxConcurrent, running, sem, task,
                  cancelOp, cancelAll, cancelAllOp, cancelAllFound, dvars, lvars>>

(* ------------------------------ Debouncer ------------------------------ *)
(* A timer of the runtime: the function it is to run, the time AfterFunc   *)
(* was called, the time it is due, and whether it is still armed, was      *)
(* stopped, or has fired (ranAt: when the function was started).           *)
NewDebouncer(timeout) == [timer |-> 0, timeout |-> timeout]

\* time.AfterFunc(d, fn) at time t
AfterFuncAtOnce(d, fn, t) ==
  [fn |-> fn, at |-> t, when |-> t, state |-> "armed", ranAt |-> 0]
AfterFunc(d, fn, t) ==
  [fn |-> fn, at |-> t, when |-> t + d, state |-> "armed", ranAt |-> 0]

\* timer.Stop(): a timer that has not fired will not fire
timerStopNot(tm) == tm
timerStop(tm) == [tm EXCEPT !.state = IF @ = "armed" THEN "stopped" ELSE @]

\* `if d.timer != nil { d.timer.Stop() }`
StopPending(d, ts) ==
  IF d.timer # 0 THEN [ts EXCEPT ![d.timer] = timerStop(@)] ELSE ts

\* d.Debounce(fn)
Debounce(fn) ==
  /\ Len(timers) < MaxCalls
  /\ clock + debouncer.timeout <= MaxTime
  /\ timers' = Append(StopPending(debouncer, timers), AfterFunc(debouncer.timeout, fn, clock))
  /\ debouncer' = [debouncer EXCEPT !.timer = Len(timers) + 1]
  /\ UNCHANGED <<clock, now, opvars, cancelledPending, qvars, lvars>>

\* d.Stop()
Stop ==
  /\ timers' = StopPending(debouncer, timers)
  /\ debouncer' = [debouncer EXCEPT !.timer = 0]
  /\ UNCHANGED <<clock, now, opvars, cancelledPending, qvars, lvars>>

\* the runtime starts the function of a timer that is due, in its own
\* goroutine; it may do so late, never early
Fire(k) ==
  /\ k \in 1..Len(timers)
  /\ timers[k].state = "armed"
  /\ clock >= timers[k].when
  /\ timers' = [timers EXCEPT ![k].state = "fired", ![k].ranAt = clock]
  /\ UNCHANGED <<debouncer, clock, now, opvars, cancelledPending, qvars, lvars>>

\* time passes
Tick ==
  /\ clock < MaxTime
  /\ clock' = clock + 1
  /\ UNCHANGED <<debouncer, timers, now, opvars, cancelledPending, qvars, lvars>>

(* -------------------------------- locks -------------------------------- *)
(* What each method does to q.mu and to the op.mu of the Operations, as    *)
(* the sequence of its lock calls.  A lock is named by 0 (q.mu) or by the  *)
(* Operation it belongs to.                                                *)
QMu == 0
Threads == 1..NumThreads

\* Add, Clear, and runOperation around its insert and its delete:
\* q.mu.Lock() ... q.mu.Unlock()
QueueWriteLocks == << <<"Lock", QMu>>, <<"Unlock", QMu>> >>

\* Get, GetAll, GetRunning, GetPending, GetCompleted, Count, RunningCount:
\* q.mu.RLock(); defer q.mu.RUnlock()
QueueReadLocks == << <<"RLock", QMu>>, <<"RUnlock", QMu>> >>

\* op.Cancel, op.UpdateProgress, op.SetStatus, op.SetError:
\* op.mu.Lock(); defer op.mu.Unlock()
OpWriteLocksUnderQueue(o) ==
  << <<"Lock", o>>, <<"RLock", QMu>>, <<"RUnlock", QMu>>, <<"Unlock", o>> >>
OpWriteLocks(o) == << <<"Lock", o>>, <<"Unlock", o>> >>

\* op.GetProgress: op.mu.RLock(); defer op.mu.RUnlock()
OpReadLocks(o) == << <<"RLock", o>>, <<"RUnlock", o>> >>

\* q.CancelAll() where found is the sequence of the Operations it finds
\* Pending or Running: op.Cancel() on each with q.mu held
RECURSIVE CancelEach(_)
CancelEach(found) ==
  IF found = <<>> THEN <<>> ELSE OpWriteLocks(Head(found)) \o CancelEach(Tail(found))

CancelAllLocks(found) == << <<"Lock", QMu>> >> \o CancelEach(found) \o << <<"Unlock", QMu>> >>

\* the Operations a CancelAll can find, in the order of some history
Histories ==
  { h \in UNION { [1..n -> Ops] : n \in 0..NumOps } :
      \A i \in 1..Len(h) : \A j \in 1..Len(h) : i # j => h[i] # h[j] }

\* the calls a goroutine can make: a caller, a runner (the setters, and in
\* its progress callback anything a caller can do), a queue task.
\* q.Cancel(id) holds no lock between its q.Get(id) and its op.Cancel():
\* it is the call of the one followed by the call of the other.
Programs ==
  {QueueWriteLocks, QueueReadLocks}
    \cup { OpWriteLocks(o) : o \in Ops }
    \cup { OpReadLocks(o) : o \in Ops }
    \cup { CancelAllLocks(h) : h \in Histories }

(* A sync.RWMutex: w is the goroutine that has announced or holds the      *)
(* write lock (0: none), r the goroutines that hold the read lock, rwait   *)
(* the readers that arrived while a writer was there: Unlock lets them all *)
(* in before the next writer.                                              *)
FreeMutex == [w |-> 0, r |-> {}, rwait |-> {}]
IdleThread == [prog |-> <<>>, pc |-> 1, st |-> "run"]

InitLocks ==
  /\ mu = [m \in {QMu} \cup Ops |-> FreeMutex]
  /\ thr = [t \in Threads |-> IdleThread]

Busy(t) == thr[t].pc <= Len(thr[t].prog)

\* the lock call the goroutine t is at can go on
CanStep(t) ==
  /\ Busy(t)
  /\ LET ins == thr[t].prog[thr[t].pc]
         m == mu[ins[2]]
     IN
     CASE ins[1] = "Lock" -> IF thr[t].st = "run" THEN m.w = 0 ELSE m.r = {}
       [] ins[1] = "RLock" -> thr[t].st = "run" \/ t \in m.r
       [] OTHER -> TRUE

\* the goroutine t starts a call
Call(t, prog) ==
  /\ ~Busy(t)
  /\ thr' = [thr EXCEPT ![t] = [prog |-> prog, pc |-> 1, st |-> "run"]]
  /\ UNCHANGED <<mu, now, opvars, cancelledPending, qvars, dvars>>

\* the goroutine t goes on by one lock call; after the last, the call
\* has returned
Step(t) ==
  /\ CanStep(t)
  /\ LET ins == thr[t].prog[thr[t].pc]
         l == ins[2]
         m == mu[l]
         on == [thr EXCEPT ![t].pc = @ + 1, ![t].st = "run"]
     IN
     CASE ins[1] = "Lock" ->
            IF thr[t].st = "run"
            THEN /\ mu' = [mu EXCEPT ![l].w = t]
                 /\ thr' = [thr EXCEPT ![t].st = "pending"]
            ELSE /\ thr' = on
                 /\ UNCHANGED mu
       [] ins[1] = "Unlock" ->
            /\ mu' = [mu EXCEPT ![l] = [w |-> 0, r |-> m.r \cup m.rwait, rwait |-> {}]]
            /\ thr' = on
       [] ins[1] = "RLock" ->
            IF thr[t].st = "blocked"
            THEN /\ thr' = on
                 /\ UNCHANGED mu
            ELSE IF m.w = 0
                 THEN /\ mu' = [mu EXCEPT ![l].r = @ \cup {t}]
                      /\ thr' = on
                 ELSE /\ mu' = [mu EXCEPT ![l].rwait = @ \cup {t}]
                      /\ thr' = [thr EXCEPT ![t].st = "blocked"]
       [] OTHER ->
            /\ mu' = [mu EXCEPT ![l].r = @ \ {t}]
            /\ thr' = on
  /\ UNCHANGED <<now, opvars, cancelledPending, qvars, dvars>>

(* --------------------------- specifications ---------------------------- *)
InitOps ==
  /\ now = 0
  /\ op = <<>>
  /\ run = <<>>
  /\ fs = <<>>
  /\ cbLast = <<>>
  /\ cancelledPending = {}

InitQueue(maxConcurrent) ==
  /\ MaxConcurrent = NewQueue(maxConcurrent)
  /\ operations = <<>>
  /\ running = <<>>
  /\ sem = 0
  /\ task = <<>>
  /\ cancelOp = NoCancel
  /\ cancelAll = 0
  /\ cancelAllOp = 0
  /\ cancelAllFound = {}
  /\ clear = NoClear

\* debouncer := NewDebouncer(timeout), no timer made yet
InitDebouncer(timeout) ==
  /\ debouncer = NewDebouncer(timeout)
  /\ timers = <<>>
  /\ clock = 0

\* One Operation of any kind on any source, run directly and cancelled at
\* any moment; the queue is not used.
Init == InitOps /\ InitQueue(1) /\ InitDebouncer(1) /\ InitLocks

Create(o) ==
  \/ \E t \in Trees, cb \in BOOLEAN : Copy(o, t, cb)
  \/ \E ss \in SourceLists, cb \in BOOLEAN : CopyMultiple(o, ss, cb)
  \/ \E t \in Trees, cb \in BOOLEAN : Move(o, t, cb)
  \/ \E ss \in SourceLists, cb \in BOOLEAN : MoveMultiple(o, ss, cb)
  \/ \E t \in Trees, cb \in BOOLEAN : Delete(o, t, cb)
  \/ \E ss \in SourceLists, cb \in BOOLEAN : DeleteMultiple(o, ss, cb)
  \/ \E t \in Trees, cb \in BOOLEAN : Rename(o, t, cb)

Next ==
  \/ Create(1)
  \/ Runner(1)
  \/ OpCancel(1)

Spec == Init /\ [][Next]_vars

\* The same under fair scheduling: the runner goroutine, whose every
\* file-system call and callback returns, is not stopped for ever.
SpecFair == Init /\ [][Next]_vars /\ WF_vars(Runner(1))


(* Delete operations, whose runners start at once, and Operations made by  *)
(* NewOperation alone are added to one queue; callers cancel and clear at  *)
(* any moment.                                                             *)
IDs == 1..MaxClock

InitQ ==
  /\ InitOps
  /\ \E maxConcurrent \in 0..MaxConcArg : InitQueue(maxConcurrent)
  /\ InitDebouncer(1)
  /\ InitLocks

CreateQ(o) ==
  \/ \E t \in QueueTrees : Delete(o, t, FALSE)
  \/ \E t \in QueueTrees : Bare(o, OpCopy, t)

NextQ ==
  \/ \E o \in Ops : CreateQ(o)
  \/ \E o \in Ops : performDelete(o)
  \/ \E o \in Ops : OpCancel(o)
  \/ \E o \in Ops : Add(o)
  \/ \E o \in Ops : runOperation(o)
  \/ CancelAll
  \/ Clear

SpecQ == InitQ /\ [][NextQ]_vars

(* Cancelling by ID: the same Operations are added to a queue and callers  *)
(* call Cancel(id), CancelAll and Clear at any moment while the runners    *)
(* go on. The queue tasks, which write neither the history nor any         *)
(* Operation, are left where Add started them.                             *)
NextCancel ==
  \/ \E o \in Ops : CreateQ(o)
  \/ \E o \in Ops : performDelete(o)
  \/ \E o \in Ops : OpCancel(o)
  \/ \E o \in Ops : Add(o)
  \/ \E id \in IDs : QueueCancelGet(id)
  \/ QueueCancelOp
  \/ CancelAll
  \/ Clear

SpecCancel == Init /\ [][NextCancel]_vars

(* The queue with one slot under the scheduling the Go runtime gives: a    *)
(* goroutine that can run does run (the runners and the queue tasks), a    *)
(* goroutine blocked on q.mu or on a send to q.sem is served when the lock *)
(* or a slot comes free again and again (sync.Mutex hands the lock to a    *)
(* starving waiter, channel senders are queued first-in first-out), and a  *)
(* call of CancelAll that holds q.mu runs to its return. The caller is     *)
(* free to create, add and cancel or not.                                  *)
NextLive ==
  \/ \E o \in Ops : CreateQ(o)
  \/ \E o \in Ops : performDelete(o)
  \/ \E o \in Ops : Add(o)
  \/ \E o \in Ops : runOperation(o)
  \/ CancelAll

FairLive ==
  /\ \A o \in Ops : WF_vars(performDelete(o))
  /\ \A o \in Ops : SF_vars(runOperation(o))
  /\ WF_vars(cancelAll > 0 /\ CancelAll)

SpecLive == Init /\ [][NextLive]_vars /\ FairLive


(* Admission order: Operations made by NewOperation alone are added to a   *)
(* queue with one slot; each holds the slot until it is cancelled.         *)
QueuedOps == 1..NumQueued

NextOrder ==
  \/ \E o \in QueuedOps : \E t \in QueueTrees : Bare(o, OpCopy, t)
  \/ \E o \in QueuedOps : Add(o)
  \/ \E o \in QueuedOps : runOperation(o)
  \/ \E o \in QueuedOps : OpCancel(o)

SpecOrder == Init /\ [][NextOrder]_vars /\ \A o \in QueuedOps : SF_vars(runOperation(o))

(* One Debouncer used by one goroutine, as the watcher's event loop uses   *)
(* it: calls of Debounce and Stop at any time; the runtime runs a timer    *)
(* that is due, and time goes on.                                          *)
Fns == {"f", "g"}

InitD ==
  /\ InitOps
  /\ InitQueue(1)
  /\ \E timeout \in 1..MaxTimeout : InitDebouncer(timeout)
  /\ InitLocks

NextD ==
  \/ \E fn \in Fns : Debounce(fn)
  \/ Stop
  \/ \E k \in 1..MaxCalls : Fire(k)
  \/ Tick

FairD ==
  /\ \A k \in 1..MaxCalls : WF_vars(Fire(k))
  /\ WF_vars(Tick)

SpecD == InitD /\ [][NextD]_vars /\ FairD

(* The goroutines of the program and the locks alone: each goroutine makes *)
(* any call at any time; a goroutine inside a call is scheduled, and one   *)
(* that waits for a lock gets it if the lock comes free again and again.   *)
NextLocks ==
  \/ \E t \in Threads : \E prog \in Programs : Call(t, prog)
  \/ \E t \in Threads : Step(t)

FairLocks == \A t \in Threads : SF_vars(Step(t))

SpecLocks == Init /\ [][NextLocks]_vars /\ FairLocks

(* ------------------------------ properties ----------------------------- *)
HasRunner(o) == o \in Created /\ run[o].fn # "none"
Ended(o) == HasRunner(o) /\ run[o].pc = "done"
InRunning(o) == \E id \in DOMAIN running : running[id] = o
Waiting(o) == o \in Added /\ task[o].pc = "acquire"

\* C1: the Running index never holds more than MaxConcurrent entries
C1_RunningBounded == RunningCount <= MaxConcurrent

\* a saturated queue: every slot is taken, the index is full, and another
\* added Operation waits for a slot
C1_Saturated ==
  /\ RunningCount = MaxConcurrent
  /\ sem = MaxConcurrent
  /\ \E o \in Ops : Waiting(o)

\* C2: an Operation of the queue has Status Running only while it is in the
\* Running index, so at most MaxConcurrent of them have Status Running
C2_RunningOnlyWhenAdmitted ==
  /\ \A o \in Added : (HasRunner(o) /\ op[o].Status = StatusRunning) => InRunning(o)
  /\ Cardinality({o \in Added : op[o].Status = StatusRunning}) <= MaxConcurrent

\* C3: an Operation cancelled while Pending is never Completed, and is
\* Cancelled when its runner has ended (a runner that met a file-system
\* error aside)
C3_CancelledBeforeStart ==
  \A o \in cancelledPending :
    HasRunner(o) =>
      /\ op[o].Status # StatusCompleted
      /\ (Ended(o) /\ op[o].Error = NoError) => op[o].Status = StatusCancelled

\* C4: a terminal Status never changes
C4_TerminalIsFinal ==
  [][\A o \in Created : op[o].Status \in Terminal => op'[o].Status = op[o].Status]_vars

\* C5: a runner stopped by copyRecursive's 'operation cancelled' ends with
\* Status Cancelled and no Error (for an Operation that was Running when it
\* was cancelled)
C5_CancelledNotFailed ==
  \A o \in Created \ cancelledPending :
    (Ended(o) /\ run[o].err = ErrCancelled) =>
      (op[o].Status = StatusCancelled /\ op[o].Error = NoError)

\* C6: a Completed Copy or CopyMultiple has BytesProcessed = BytesTotal and
\* Progress = 1.0
C6_CompletedCopyIsWhole ==
  \A o \in Created :
    (run[o].fn \in {"performCopy", "performCopyMultiple"} /\ op[o].Status = StatusCompleted) =>
      (op[o].BytesProcessed = op[o].BytesTotal /\ ProgressIsOne(op[o]))

\* C7: a Completed Operation of zero bytes in total reports Progress = 1.0
C7_ZeroBytesProgressOne ==
  \A o \in Created :
    (HasRunner(o) /\ op[o].Status = StatusCompleted /\ op[o].BytesTotal = 0) =>
      ProgressIsOne(op[o])

\* C8: Error is set only if Status is Failed
C8_ErrorOnlyWhenFailed ==
  \A o \in Created : op[o].Error # NoError => op[o].Status = StatusFailed

\* a failed Operation on which Cancel was also called: the runner saw the
\* token untriggered, then Cancel ran, then SetError
C8_FailedAndCancelled ==
  \E o \in Created :
    /\ op[o].Error # NoError
    /\ op[o].Status = StatusFailed
    /\ op[o].ctxDone
    /\ Ended(o)

\* C9: Cancel on an Operation whose Status is terminal changes nothing, be
\* it called on the Operation or through the queue by its ID: the
\* op.Cancel() of a Cancel(id) call that finds Status terminal leaves
\* every Operation and the queue as they are, and so does its Get
C9_CancelTerminalNoop ==
  [][LET rest == <<now, opvars, cancelledPending, MaxConcurrent, operations, running, sem,
                   task, cancelAll, cancelAllOp, cancelAllFound, clear, dvars, lvars>>
     IN
     /\ \A o \in Created : (op[o].Status \in Terminal /\ OpCancel(o)) => UNCHANGED vars
     /\ \A id \in IDs : QueueCancelGet(id) => UNCHANGED rest
     /\ (QueueCancelOp /\ op[cancelOp.op].Status \in Terminal) => UNCHANGED rest]_vars

\* a Cancel(id) call has found an Operation of the history that has
\* Completed and was never cancelled, and is about to call its Cancel
C9_CompletedInHistory ==
  \E o \in Created :
    /\ cancelOp.op = o
    /\ op[o].Status = StatusCompleted
    /\ ~op[o].ctxDone
    /\ op[o].EndTime # 0
    /\ Get(op[o].ID) = o

\* C10: in the copy-then-delete fallback of Move and MoveMultiple a source
\* is removed only after its copy has succeeded, and a source whose copy
\* failed or was cancelled is still there when the runner has ended
C10_RemoveOnlyAfterCopy ==
  \A o \in Created :
    run[o].fn \in {"performMove", "performMoveMultiple"} =>
      /\ \A si \in 1..Len(op[o].Source) :
           fs[o].src[si] \in {"removed", "partial"} => si \in fs[o].copied
      /\ (Ended(o) /\ run[o].err # NoError) => fs[o].src[run[o].si] = "present"

\* a MoveMultiple that ended with its first source copied and removed and
\* its second source, whose copy failed or was cancelled, untouched
C10_SecondCopyFailed ==
  \E o \in Created :
    /\ run[o].fn = "performMoveMultiple"
    /\ Ended(o)
    /\ fs[o].src[1] = "removed"
    /\ run[o].si = 2
    /\ run[o].err # NoError
    /\ fs[o].src[2] = "present"
    /\ op[o].Status = StatusFailed

\* the runner has ended (but for its final callback) on a source of the
\* copy-then-delete fallback whose copy succeeded and whose removal failed
RemoveFailedAfterCopy(o) ==
  /\ o \in Created
  /\ run[o].fn \in {"performMove", "performMoveMultiple"}
  /\ run[o].pc \in {"final_cb", "done"}
  /\ run[o].si \in fs[o].copied
  /\ fs[o].src[run[o].si] \in {"present", "partial"}

\* the outermost messages of the errors of a failed removal and of a failed copy
RemoveMessages == {"failed to remove source after copy", "failed to remove source"}
CopyMessages == {"failed to copy", "failed to move"}

\* C11: when the copy of the fallback succeeded and the removal of the source
\* failed, the Operation is Failed with a 'remove source' error, which is no
\* 'copy' error, and it is not Completed
C11_RemoveFailureDistinct ==
  \A o \in Created :
    RemoveFailedAfterCopy(o) =>
      /\ op[o].Status = StatusFailed
      /\ op[o].Error # NoError
      /\ Head(op[o].Error) \in RemoveMessages \ CopyMessages

\* a Move that ended with the destination written and a source that
\* os.RemoveAll left half removed
C11_HalfRemoved ==
  \E o \in Created :
    /\ RemoveFailedAfterCopy(o)
    /\ Ended(o)
    /\ run[o].fn = "performMove"
    /\ fs[o].src[1] = "partial"
    /\ fs[o].dst[1][1] >= 0

\* the copy of source j is whole at the destination: every regular file
\* with all its bytes, every directory and link created
FullyCopied(o, j) ==
  /\ j \in fs[o].copied
  /\ \A n \in 1..Len(op[o].Source[j]) :
       fs[o].dst[j][n] = (IF op[o].Source[j][n].kind = "file" THEN op[o].Source[j][n].size ELSE 0)

\* the copy loop has not reached source j: copyRecursive has not looked at
\* it and nothing of it has been created at the destination
Untouched(o, j) ==
  /\ fs[o].read[j] # "copy"
  /\ \A n \in 1..Len(op[o].Source[j]) : fs[o].dst[j][n] = -1

\* C12 as stated: when the copy of source i of a CopyMultiple has failed
\* and the Operation was not cancelled, the Operation is Failed with that
\* error, no later source has been read or written, and every earlier
\* source is wholly copied
C12_LaterSourcesNeverRead ==
  \A o \in Created :
    (run[o].fn = "performCopyMultiple" /\ Ended(o) /\ run[o].err # NoError /\ ~op[o].ctxDone) =>
      /\ op[o].Status = StatusFailed
      /\ op[o].Error = run[o].err
      /\ \A j \in 1..Len(op[o].Source) :
           /\ j < run[o].si => FullyCopied(o, j)
           /\ j > run[o].si =>
                /\ fs[o].read[j] = "none"
                /\ \A n \in 1..Len(op[o].Source[j]) : fs[o].dst[j][n] = -1

\* C12: CopyMultiple takes its sources in the order given: at every moment
\* the sources before the current one are wholly copied and those after it
\* are untouched by the copy; when the copy of a source has failed and the
\* Operation was not cancelled, the runner ends there, Failed with that
\* error, and every later source has been read by the size pass at the
\* start of the runner and by nothing else
C12_InOrderFailFast ==
  \A o \in Created :
    run[o].fn = "performCopyMultiple" =>
      /\ \A j \in 1..Len(op[o].Source) :
           /\ j < run[o].si => FullyCopied(o, j)
           /\ j > run[o].si => Untouched(o, j)
      /\ (Ended(o) /\ run[o].err # NoError /\ ~op[o].ctxDone) =>
           /\ op[o].Status = StatusFailed
           /\ op[o].Error = run[o].err
           /\ Head(op[o].Error) = "failed to copy"
           /\ run[o].si \notin fs[o].copied
           /\ fs[o].read[run[o].si] = "copy"
           /\ \A j \in (run[o].si + 1)..Len(op[o].Source) : fs[o].read[j] = "walk"

\* a CopyMultiple of two sources, never cancelled, that ended on the
\* failure of its first source after writing part of it: the second source
\* was walked by the size pass and nothing of it is at the destination
C12_FirstSourceFailed ==
  \E o \in Created :
    /\ run[o].fn = "performCopyMultiple"
    /\ Ended(o)
    /\ ~op[o].ctxDone
    /\ Len(op[o].Source) = 2
    /\ run[o].si = 1
    /\ run[o].err # NoError
    /\ fs[o].dst[1][1] > 0
    /\ fs[o].read[2] = "walk"
    /\ Untouched(o, 2)

\* C13: while an Operation is Running, no step lowers BytesProcessed or
\* BytesTotal
C13_BytesNeverDecrease ==
  [][\A o \in Created :
       (op[o].Status = StatusRunning /\ op'[o].Status = StatusRunning) =>
         /\ op'[o].BytesProcessed >= op[o].BytesProcessed
         /\ op'[o].BytesTotal >= op[o].BytesTotal]_vars

\* a file-system call of the runner has returned an error, other than the
\* os.Rename whose failure sends a Move to its copy-then-delete fallback
MetFsError(o) == run[o].oserr \in {"close", "failed"}

\* C14: a runner that met an error of a file-system call and was not
\* cancelled ends with Status Failed and an Error
C14_FsErrorFails ==
  \A o \in Created :
    (Ended(o) /\ MetFsError(o) /\ ~op[o].ctxDone) =>
      (op[o].Status = StatusFailed /\ op[o].Error # NoError)

\* C15: a runner given a callback has ended with a call of it, and at that
\* last call the Status of the Operation was terminal
C15_FinalCallbackSeesTerminal ==
  \A o \in Created :
    (Ended(o) /\ run[o].callback) => cbLast[o] \in Terminal

\* the Operation a call of CancelAll or Clear at position pos looks at next
\* (0: the history is empty)
LookedAt(pos) ==
  IF operations = <<>> THEN 0
  ELSE operations[IF pos = 0 THEN 1 ELSE pos]

\* the Operations of the sequence q
Members(q) == { q[k] : k \in 1..Len(q) }

\* C18: Clear changes no Operation, nor the Running index, nor
\* MaxConcurrent; each Operation it looks at is retained if its Status is
\* Pending or Running and dropped if it is Completed, Failed or Cancelled;
\* when it returns the history holds the retained Operations in the order
\* they had
C18_ClearDropsTerminal ==
  [][Clear =>
       LET o == LookedAt(clear.i)
           returns == clear' = NoClear
           retained == IF returns THEN operations' ELSE clear'.active
           InRetained(x) == x \in Members(retained)
       IN
       /\ UNCHANGED <<op, running, MaxConcurrent, sem, task>>
       /\ o # 0 =>
            /\ op[o].Status \in {StatusPending, StatusRunning} => o \in Members(retained)
            /\ op[o].Status \in Terminal => o \notin Members(retained)
            /\ Members(retained) \ {o} = Members(clear.active)
       /\ returns => operations' = SelectSeq(operations, InRetained)
       /\ ~returns => operations' = operations]_vars

\* Clear has dropped the first Operation of a history of two, which ended
\* Completed, and kept the second, which is still Pending
C18_ClearedOneOfTwo ==
  /\ Added = {1, 2}
  /\ clear = NoClear
  /\ operations = <<2>>
  /\ op[1].Status = StatusCompleted
  /\ op[2].Status = StatusPending

\* C19: Cancel(id) returns true exactly when, at its Get, an Operation of
\* the history has that ID, and then calls Cancel on the first such
\* Operation and on no other; when that Operation is Pending or Running as
\* its Cancel acts, its token is triggered; the token is left untriggered
\* only if the Operation has Completed or Failed by then; when the call
\* returns false nothing changes
C19_CancelByID ==
  [][LET rest == <<now, run, fs, cbLast, MaxConcurrent, operations, running, sem, task,
                   cancelAll, cancelAllOp, cancelAllFound, clear, dvars, lvars>>
     IN
     /\ \A id \in IDs :
          QueueCancelGet(id) =>
            /\ QueueCancelReturns(id) <=> (\E i \in 1..Len(operations) : op[operations[i]].ID = id)
            /\ QueueCancelReturns(id) =>
                 /\ op[Get(id)].ID = id
                 /\ cancelOp'.op = Get(id)
                 /\ UNCHANGED <<op, cancelledPending, rest>>
            /\ ~QueueCancelReturns(id) => UNCHANGED vars
     /\ QueueCancelOp =>
          LET o == cancelOp.op IN
          /\ op[o].Status \in {StatusPending, StatusRunning} => IsCancelled(op'[o])
          /\ ~IsCancelled(op'[o]) => op[o].Status \in {StatusCompleted, StatusFailed}
          /\ \A x \in Created \ {o} : op'[x] = op[x]
          /\ UNCHANGED rest]_vars

\* a Cancel(id) call has found an Operation of the history Running and is
\* about to call its Cancel, which finds it still Running; there is an ID
\* that no Operation of the history has
C19_CancelledInHistory ==
  /\ \E id \in IDs : ~QueueCancelReturns(id)
  /\ cancelOp # NoCancel
  /\ cancelOp.status = StatusRunning
  /\ op[cancelOp.op].Status = StatusRunning
  /\ ~op[cancelOp.op].ctxDone
  /\ Get(op[cancelOp.op].ID) = cancelOp.op

\* C20: when CancelAll returns, every Operation it found Pending or Running
\* has its token triggered and Status Cancelled; an Operation whose Status
\* is terminal is left as it is by every step of CancelAll
C20_CancelAllCancels ==
  [][CancelAll =>
       /\ \A o \in Created : op[o].Status \in Terminal => op'[o] = op[o]
       /\ cancelAll' = 0 =>
            \A x \in cancelAllFound :
              IsCancelled(op'[x]) /\ op'[x].Status = StatusCancelled]_vars

\* the queue task of o is in its wait loop: o was admitted and inserted
Admitted(o) == o \in Added /\ task[o].pc \in {"poll", "select"}

\* the queue task of o has returned: its entry deleted, its slot released
Left(o) == o \in Added /\ task[o].pc = "done" /\ ~InRunning(o)

AllSubmittedTerminal ==
  Added # {} /\ \A o \in Added : op[o].Status \in Terminal

\* C16: an admitted Operation whose Status is terminal or whose token is
\* triggered is eventually removed from the Running index and its slot
\* released; while all submitted Operations are terminal, RunningCount
\* eventually is 0 and a waiting Operation is eventually admitted
C16_AdmittedEventuallyLeaves ==
  /\ \A o \in Ops :
       (Admitted(o) /\ (op[o].Status \in Terminal \/ op[o].ctxDone)) ~> Left(o)
  /\ AllSubmittedTerminal ~> (RunningCount = 0 \/ ~AllSubmittedTerminal)
  /\ \A o \in Ops :
       (Waiting(o) /\ AllSubmittedTerminal) ~> (~Waiting(o) \/ ~AllSubmittedTerminal)

\* the first Operation completed without being cancelled, its queue task
\* has left, and the second Operation holds the one slot after it
C16_SlotHandedOn ==
  /\ MaxConcurrent = 1
  /\ Left(1)
  /\ op[1].Status = StatusCompleted
  /\ ~op[1].ctxDone
  /\ Admitted(2)

\* C17: an Operation made by NewOperation alone and added to the queue
\* eventually reaches a terminal Status
C17_AddStartsWork ==
  \A o \in Ops :
    (o \in Added /\ ~HasRunner(o) /\ op[o].Status = StatusPending)
      ~> (o \in Added /\ op[o].Status \in Terminal)

\* C21: any two Operations have different IDs
C21_IDsDistinct ==
  \A o1 \in Created : \A o2 \in Created : o1 # o2 => op[o1].ID # op[o2].ID

\* C24: an Operation whose Status is Completed, Failed or Cancelled has a
\* non-zero EndTime
C24_TerminalHasEndTime ==
  \A o \in Created : op[o].Status \in Terminal => op[o].EndTime # 0

\* C29: an Operation whose Status is Cancelled has its token triggered
C29_CancelledHasToken ==
  \A o \in Created : op[o].Status = StatusCancelled => IsCancelled(op[o])

\* a runner that was cancelled while Running has returned and left the
\* Status Cancelled
C29_EndedCancelled ==
  \E o \in Created :
    /\ Ended(o)
    /\ o \notin cancelledPending
    /\ op[o].Status = StatusCancelled
    /\ op[o].StartTime # 0

\* C28: every Operation of the Running index is in the history
C28_RunningInHistory ==
  \A id \in DOMAIN running : running[id] \in Members(operations)

\* the runner of o, if it has one, has made its last write: nothing but
\* the final callback is left
RunnerFinished(o) == HasRunner(o) => run[o].pc \in {"final_cb", "done"}

\* C25: when the queue task deletes an Operation from the Running index
\* the Status of the Operation is terminal and its runner has finished
C25_LeavesWhenFinished ==
  [][\A o \in Ops :
       (runOperation(o) /\ task[o].pc = "delete") =>
         (op[o].Status \in Terminal /\ RunnerFinished(o))]_vars

\* Add(a) returned before Add(b) was called
AddedBefore(a, b) ==
  \E i \in 1..Len(operations) : \E j \in (i + 1)..Len(operations) :
    operations[i] = a /\ operations[j] = b

\* a and b, added in this order, both wait for a slot of the saturated queue
BothWait(a, b) ==
  /\ AddedBefore(a, b)
  /\ Waiting(a)
  /\ Waiting(b)
  /\ sem = MaxConcurrent

\* the queue task of o has put o into the Running index
Entered(o) == o \in Added /\ task[o].pc \notin {"acquire", "insert"}

\* C26: of two Operations that both wait for a slot, the one added first
\* enters the Running index no later than the other
C26_AdmittedInAddOrder ==
  \A a \in QueuedOps : \A b \in QueuedOps :
    [](BothWait(a, b) => [](Entered(b) => Entered(a)))

\* the runner of o is inside copyRecursive
InCopy(o) ==
  /\ HasRunner(o)
  /\ run[o].pc \in {"cr_check", "cr_entry", "cd_entry", "cd_check",
                    "cf_entry", "cf_check", "cf_io", "cf_cb"}

\* entry ni of source si is a regular file whose copy holds all its bytes
FullyWritten(o, si, ni) ==
  /\ op[o].Source[si][ni].kind = "file"
  /\ fs[o].dst[si][ni] = op[o].Source[si][ni].size

\* C27: with the token triggered the runner writes at most one further
\* buffer and starts at most one further destination entry, changes no
\* file it had fully written, and a runner inside copyRecursive returns
C27_CancelStopsCopy ==
  /\ [](\A o \in Created : fs[o].lateBuffers <= 1 /\ fs[o].lateEntries <= 1)
  /\ [][\A o \in Created :
          op[o].ctxDone =>
            \A si \in DOMAIN op[o].Source : \A ni \in DOMAIN op[o].Source[si] :
              FullyWritten(o, si, ni) => fs'[o].dst[si][ni] = fs[o].dst[si][ni]]_vars
  /\ \A o \in Ops :
       (o \in Created /\ InCopy(o) /\ op[o].ctxDone) ~> (o \in Created /\ Ended(o))

\* a copy cancelled after its cancellation check has written one more
\* buffer of a file of two buffers, returned the cancellation and ended
\* with the file half written
C27_OneLateBuffer ==
  \E o \in Created :
    /\ Ended(o)
    /\ run[o].err = ErrCancelled
    /\ fs[o].lateBuffers = 1
    /\ fs[o].dst[1][1] = BufSize
    /\ op[o].Source[1][1].size = BufSize + 1

Armed(k) == k \in 1..Len(timers) /\ timers[k].state = "armed"
Fired(k) == k \in 1..Len(timers) /\ timers[k].state = "fired"
Stopped(k) == k \in 1..Len(timers) /\ timers[k].state = "stopped"

\* C22: of two Debounce calls less than the timeout apart the function of
\* the earlier never runs; a function runs no sooner than the timeout
\* after its call, and only a later call of Debounce or Stop keeps it from
\* running: the function of an armed timer is eventually run unless that
\* happens
C22_BurstRunsLastOnce ==
  /\ [](\A k \in 1..Len(timers) :
          /\ Fired(k) => timers[k].ranAt >= timers[k].at + debouncer.timeout
          /\ (k < Len(timers) /\ timers[k + 1].at - timers[k].at < debouncer.timeout)
               => ~Fired(k)
          /\ Stopped(k) => debouncer.timer # k)
  /\ \A k \in 1..MaxCalls : Armed(k) ~> (Fired(k) \/ Stopped(k))

\* a burst of three calls, each less than the timeout after the one
\* before: only the function of the last call has run
C22_LastOfThreeRan ==
  /\ Len(timers) = 3
  /\ debouncer.timeout = 2
  /\ timers[2].at = timers[1].at + 1
  /\ timers[3].at = timers[2].at + 1
  /\ Stopped(1) /\ Stopped(2) /\ Fired(3)
  /\ timers[1].fn # timers[3].fn

\* C23: Stop with a timer pending that is not yet due stops it, and a
\* stopped timer never runs its function; Stop with nothing pending
\* changes nothing; the function of a timer pending after a later
\* Debounce is run unless a later call replaces or stops it
C23_StopCancelsPending ==
  /\ [][Stop =>
          LET k == debouncer.timer IN
          /\ debouncer'.timer = 0
          /\ k = 0 => UNCHANGED vars
          /\ k # 0 =>
               /\ clock < timers[k].when => timers'[k].state = "stopped"
               /\ timers'[k].state # "armed"
               /\ \A j \in 1..Len(timers) : j # k => timers'[j] = timers[j]]_vars
  /\ [][\A k \in 1..Len(timers) : Stopped(k) => timers'[k] = timers[k]]_vars
  /\ \A k \in 1..MaxCalls :
       (Armed(k) /\ debouncer.timer = k) ~> (Fired(k) \/ debouncer.timer # k)

\* Stop was called with the one timer pending; the timeout has passed
\* since and the function has not run
C23_StoppedAndOverdue ==
  /\ Len(timers) = 1
  /\ Stopped(1)
  /\ debouncer.timer = 0
  /\ clock > timers[1].when

\* the goroutine t holds the lock l, for writing or for reading; a
\* goroutine whose Lock call on l has announced it (w = t) and still waits
\* for the readers of l to leave does not hold l yet
Holds(t, l) ==
  \/ t \in mu[l].r
  \/ /\ mu[l].w = t
     /\ ~(thr[t].st = "pending" /\ thr[t].prog[thr[t].pc] = <<"Lock", l>>)

\* the goroutine t is at a lock call on l that has not returned
WaitsFor(t, l) ==
  /\ Busy(t)
  /\ thr[t].prog[thr[t].pc] \in { <<"Lock", l>>, <<"RLock", l>> }

\* C30: no goroutine is at a lock call on q.mu while it holds an op.mu;
\* while a call is under way some goroutine can go on; and every call
\* returns
C30_LocksNeverDeadlock ==
  /\ [](\A t \in Threads : WaitsFor(t, QMu) => \A o \in Ops : ~Holds(t, o))
  /\ []((\E t \in Threads : Busy(t)) => (\E t \in Threads : CanStep(t)))
  /\ \A t \in Threads : Busy(t) ~> ~Busy(t)

\* one goroutine is inside CancelAll: it holds q.mu and waits for the
\* op.mu that a second goroutine holds; a third waits for q.mu
C30_CancelAllWaitsForOp ==
  \E t1 \in Threads : \E t2 \in Threads : \E t3 \in Threads : \E o \in Ops :
    /\ Holds(t1, QMu) /\ mu[QMu].w = t1
    /\ WaitsFor(t1, o) /\ ~CanStep(t1)
    /\ mu[o].w = t2
    /\ t3 \in mu[QMu].rwait

====
